---- MODULE Spec2Model ----
(***************************************************************************)
(* PersonalParakeet UI bridge.                                             *)
(*                                                                         *)
(*   src/src/events.rs   GuiEvent                                          *)
(*   src/src/lib.rs      GuiController (pyo3 class): channel, registry,    *)
(*                       run, register_callback, the emit methods          *)
(*   src/src/gui.rs      GuiApp: process_events, trigger_python_callback   *)
(*   src/workshop-box-ui/src-tauri/src/main.rs                             *)
(*                       connect_to_python_backend: reconnecting client    *)
(*                                                                         *)
(* Specifications:                                                         *)
(*   Spec           controller + render loop, every pymethod of lib.rs     *)
(*   SpecBurst      the same, a producer that queues more than one batch   *)
(*   SpecDispatch   the same, process_events fed every GuiEvent variant    *)
(*   SpecTransport  the websocket client of main.rs                        *)
(***************************************************************************)
EXTENDS Integers, Sequences, FiniteSets, TLC

\* ------------------------------------------------------------------ bounds
\* Successful sends a producer makes in Spec.
MaxSent == 2
\* Events queued beyond one full batch in SpecBurst.
MaxExtra == 2
\* Calls that return an error (failed emits, refused run calls).
MaxErrors == 2
\* Connection attempts of the transport client.
MaxAttempts == 3
\* Inbound stream items the transport client reads, over all sessions.
MaxFrames == 3

\* ------------------------------------------------------- program constants
\* gui.rs: `if self.update_batch.len() >= 10 { break; }`
BatchLimit == 10
\* main.rs: `tokio::time::sleep(tokio::time::Duration::from_secs(3))`
BackoffSecs == 3

\* ------------------------------------------------------------ input values
StatusTexts == {"Busy"}
ColorTags == {"Red", "purple"}
Texts == {"a", "b"}
Decisions == {"APPEND_WITH_SPACE", "REPLACE", "MERGE"}
ErrorMessages == {"mic"}
CallbackNames == {"on_done", "on_start"}
Handlers == {"h1", "h2"}
Payloads == {"x"}
NoCallback == "None"

\* --------------------------------------------------------------- GuiEvent
UpdateStatus(status, color) ==
    [tag |-> "UpdateStatus", status |-> status, color |-> color]
UpdateText(text, decision) ==
    [tag |-> "UpdateText", text |-> text, decision |-> decision]
SetRecording(recording) ==
    [tag |-> "SetRecording", recording |-> recording]
ShowError(error) ==
    [tag |-> "ShowError", error |-> error]
SetWindowProperties(transparent, always_on_top) ==
    [tag |-> "SetWindowProperties", transparent |-> transparent,
     always_on_top |-> always_on_top]
TriggerCallback(callback_name, data) ==
    [tag |-> "TriggerCallback", callback_name |-> callback_name, data |-> data]

GuiEventVariants ==
    {"UpdateStatus", "UpdateText", "SetRecording", "ShowError",
     "SetWindowProperties", "TriggerCallback"}

is_high_frequency(e) == e.tag \in {"UpdateText", "UpdateStatus"}

VARIABLES
    \* GuiController (lib.rs)
    chan,               \* the unbounded crossbeam channel: events sent, not yet received
    event_receiver,     \* Option<Receiver> slot: "Some" | "None"
    callback_registry,  \* HashMap name -> handler (NoCallback: no entry)
    \* GuiApp (gui.rs)
    status_text, status_color, recognized_text, text_color, is_recording,
    update_batch,
    \* control
    gui_pc,             \* "none" | "idle" | "handler" | "closed"
    batch_pos,          \* index in update_batch of the event whose handler runs (0: none)
    reg_lock,           \* callback_registry mutex: "free" | "gui" | "prod"
    gil,                \* interpreter lock: "free" | "gui" | "prod"
    prod_pc,            \* producer thread: "idle" | "register"
    prod_arg,           \* arguments of the producer's pending register_callback
    \* observation
    sent,               \* every event a send accepted, in order
    applied,            \* every event the render loop applied, in order
    invoked,            \* every handler invocation <<name, handler, data>>, in order
    last_call,          \* the last pymethod that returned
    last_result,        \* and what it returned
    errors,             \* number of calls that returned Err
    eprinted,           \* "Error calling Python callback" lines on stderr
    window_hints        \* window properties handed to the windowing layer

VARIABLES
    \* connect_to_python_backend (main.rs)
    t_pc,               \* "connect" | "handshake" | "read" | "sleep"
    hs_result,          \* this session's handshake write: "none" | "ok" | "err"
    \* observation
    attempts,           \* connect_async calls made
    slept,              \* seconds spent in the backoff sleep
    handshakes,         \* handshake frames handed to ws_sender.send
    sessions,           \* connections connect_async established
    live,               \* socket streams (ws_sender, ws_receiver) in scope
    received,           \* every item the read loop took from a stream, in order
    forwarded           \* every payload given to emit_all, in order

tVars == <<t_pc, hs_result, attempts, slept, handshakes, sessions, live,
           received, forwarded>>
guiVars == <<status_text, status_color, recognized_text, text_color, is_recording>>
ctlVars == <<chan, event_receiver, callback_registry>>
vars == <<chan, event_receiver, callback_registry, status_text, status_color,
          recognized_text, text_color, is_recording, update_batch, gui_pc,
          batch_pos, reg_lock, gil, prod_pc, prod_arg, sent, applied, invoked,
          last_call, last_result, errors, eprinted, window_hints, tVars>>

Min(a, b) == IF a < b THEN a ELSE b

\* ------------------------------------------------------- gui.rs: helpers
\* str::to_lowercase on the colour tags the model feeds.
to_lowercase(s) == CASE s = "Red" -> "red" [] OTHER -> s

parse_color(color_str) ==
    LET l == to_lowercase(color_str)
    IN  CASE l = "red" -> "RED"
          [] l = "green" -> "GREEN"
          [] l = "blue" -> "BLUE"
          [] l = "yellow" -> "YELLOW"
          [] l = "orange" -> "ORANGE"
          [] OTHER -> "WHITE"

\* GuiApp::new: the fields process_events reads and writes.
GuiAppNew ==
    [status_text |-> "Ready", status_color |-> "WHITE", recognized_text |-> "",
     text_color |-> "WHITE", is_recording |-> FALSE]

GuiAppNow ==
    [status_text |-> status_text, status_color |-> status_color,
     recognized_text |-> recognized_text, text_color |-> text_color,
     is_recording |-> is_recording]

\* Mutant of the UpdateText arm: the separating space is pushed always.
MergeTextAlwaysSpace(existing, text, decision) ==
    CASE decision = "APPEND_WITH_SPACE" -> existing \o " " \o text
      [] decision = "REPLACE" -> text
      [] OTHER -> text

\* The UpdateText arm of process_events.
MergeText(existing, text, decision) ==
    CASE decision = "APPEND_WITH_SPACE" ->
             (IF existing # "" THEN existing \o " " ELSE existing) \o text
      [] decision = "REPLACE" -> text
      [] OTHER -> text

\* Mutant of the match: SetRecording flips the flag and leaves the status line.
ApplyEventUncoupled(ui, e) ==
    CASE e.tag = "UpdateStatus" ->
             [ui EXCEPT !.status_text = e.status,
                        !.status_color = parse_color(e.color)]
      [] e.tag = "UpdateText" ->
             [ui EXCEPT !.recognized_text =
                            MergeText(ui.recognized_text, e.text, e.decision),
                        !.text_color = "WHITE"]
      [] e.tag = "SetRecording" -> [ui EXCEPT !.is_recording = e.recording]
      [] e.tag = "ShowError" ->
             [ui EXCEPT !.status_text = "Error: " \o e.error,
                        !.status_color = "ORANGE"]
      [] OTHER -> ui

\* One arm of the `match event` in process_events. The TriggerCallback arm
\* changes no field of GuiApp (trigger_python_callback takes &self).
ApplyEvent(ui, e) ==
    CASE e.tag = "UpdateStatus" ->
             [ui EXCEPT !.status_text = e.status,
                        !.status_color = parse_color(e.color)]
      [] e.tag = "UpdateText" ->
             [ui EXCEPT !.recognized_text =
                            MergeText(ui.recognized_text, e.text, e.decision),
                        !.text_color = "WHITE"]
      [] e.tag = "SetRecording" ->
             [ui EXCEPT !.is_recording = e.recording,
                        !.status_text =
                            IF e.recording THEN "Recording..." ELSE "Ready",
                        !.status_color = IF e.recording THEN "RED" ELSE "GREEN"]
      [] e.tag = "ShowError" ->
             [ui EXCEPT !.status_text = "Error: " \o e.error,
                        !.status_color = "ORANGE"]
      [] e.tag = "SetWindowProperties" -> ui
      [] e.tag = "TriggerCallback" -> ui

\* Mutants of the drain loop: a batch built back to front, and a drain with
\* no batch limit.
RECURSIVE DrainLoopReversed(_, _)
DrainLoopReversed(q, batch) ==
    IF q = <<>> THEN <<batch, q>>
    ELSE LET pushed == <<Head(q)>> \o batch
         IN  IF Len(pushed) >= BatchLimit THEN <<pushed, Tail(q)>>
             ELSE DrainLoopReversed(Tail(q), pushed)

DrainLoopUnlimited(q, batch) == <<batch \o q, <<>> >>

\* The drain loop of process_events: try_recv until the channel is empty or
\* the batch holds BatchLimit events. Yields <<batch, rest of the channel>>.
RECURSIVE DrainLoop(_, _)
DrainLoop(q, batch) ==
    IF q = <<>> THEN <<batch, q>>
    ELSE LET pushed == Append(batch, Head(q))
         IN  IF Len(pushed) >= BatchLimit THEN <<pushed, Tail(q)>>
             ELSE DrainLoop(Tail(q), pushed)

\* Mutant of the lookup: the entry is called whether or not the map has it.
RegisteredAnyName(reg, e) == e.tag = "TriggerCallback"

\* trigger_python_callback finds a handler: callbacks.get(name) is Some.
Registered(reg, e) ==
    e.tag = "TriggerCallback" /\ reg[e.callback_name] # NoCallback

\* The `for event in &self.update_batch` loop from index i on, up to the first
\* event whose handler has to be called (pos: its index) or to the end (pos 0).
RECURSIVE ApplyFrom(_, _, _, _)
ApplyFrom(ui, batch, i, reg) ==
    IF i > Len(batch) THEN [ui |-> ui, pos |-> 0]
    ELSE IF Registered(reg, batch[i]) THEN [ui |-> ui, pos |-> i]
    ELSE ApplyFrom(ApplyEvent(ui, batch[i]), batch, i + 1, reg)

\* The loop runs on from event `from` of `batch`; it either finishes the tick
\* or enters Python::with_gil / callback.call1 holding the registry lock.
\* While the handler's Python code runs the interpreter may schedule other
\* Python threads (gil "free").
RunLoopFrom(batch, from) ==
    LET r == ApplyFrom(GuiAppNow, batch, from, callback_registry)
        upto == IF r.pos = 0 THEN Len(batch) ELSE r.pos
    IN  /\ status_text' = r.ui.status_text
        /\ status_color' = r.ui.status_color
        /\ recognized_text' = r.ui.recognized_text
        /\ text_color' = r.ui.text_color
        /\ is_recording' = r.ui.is_recording
        /\ applied' = applied \o SubSeq(batch, from, upto)
        /\ batch_pos' = r.pos
        /\ IF r.pos = 0
           THEN /\ gui_pc' = "idle"
                /\ reg_lock' = "free"
                /\ gil' = "gui"
                /\ UNCHANGED invoked
           ELSE /\ gui_pc' = "handler"
                /\ reg_lock' = "gui"
                /\ gil' = "free"
                /\ invoked' = Append(invoked,
                       <<batch[r.pos].callback_name,
                         callback_registry[batch[r.pos].callback_name],
                         batch[r.pos].data>>)

\* Mutant of the tick: update_batch is not cleared before the drain.
process_events_no_clear ==
    /\ gui_pc = "idle"
    /\ LET d == DrainLoop(chan, update_batch)
       IN  /\ update_batch' = d[1]
           /\ chan' = d[2]
           /\ RunLoopFrom(d[1], 1)
    /\ UNCHANGED tVars
    /\ UNCHANGED <<eprinted, window_hints>>
    /\ UNCHANGED <<event_receiver, callback_registry, prod_pc, prod_arg, sent,
                   last_call, last_result, errors>>

\* GuiApp::update -> process_events, once per frame.
process_events ==
    /\ gui_pc = "idle"
    /\ LET d == DrainLoop(chan, <<>>)
       IN  /\ update_batch' = d[1]
           /\ chan' = d[2]
           /\ RunLoopFrom(d[1], 1)
    /\ UNCHANGED tVars
    /\ UNCHANGED <<eprinted, window_hints>>
    /\ UNCHANGED <<event_receiver, callback_registry, prod_pc, prod_arg, sent,
                   last_call, last_result, errors>>

\* Mutant of the dispatch: the result of call1 is unwrapped, so a handler's
\* failure panics out of the frame and ends the render loop.
handler_returns_unwrap ==
    /\ gui_pc = "handler"
    /\ gil = "free"
    /\ \E ok \in BOOLEAN :
           IF ok
           THEN /\ RunLoopFrom(update_batch, batch_pos + 1)
                /\ UNCHANGED <<eprinted, last_call, last_result>>
           ELSE /\ gui_pc' = "closed"
                /\ reg_lock' = "free"
                /\ batch_pos' = 0
                /\ eprinted' = eprinted + 1
                /\ last_call' = "run"
                /\ last_result' = "panic"
                /\ UNCHANGED <<guiVars, gil, applied, invoked>>
    /\ UNCHANGED tVars
    /\ UNCHANGED window_hints
    /\ UNCHANGED <<chan, event_receiver, callback_registry, update_batch,
                   prod_pc, prod_arg, sent, errors>>

\* callback.call1 returns (Ok or Err: an Err is printed to stderr and dropped);
\* the GUI thread holds the interpreter lock again, the registry guard is
\* dropped, and the loop goes on with the next event of the batch.
handler_returns ==
    /\ gui_pc = "handler"
    /\ gil = "free"
    /\ \E ok \in BOOLEAN :
           /\ RunLoopFrom(update_batch, batch_pos + 1)
           /\ eprinted' = IF ok THEN eprinted ELSE eprinted + 1
    /\ UNCHANGED tVars
    /\ UNCHANGED window_hints
    /\ UNCHANGED <<chan, event_receiver, callback_registry, update_batch,
                   prod_pc, prod_arg, sent, last_call, last_result, errors>>

\* ---------------------------------------------------- lib.rs: GuiController
\* A pymethod runs with the interpreter lock held; a Python thread can enter
\* one only when no other thread is inside a call that keeps the lock.
CanCall == gil = "free" /\ prod_pc = "idle"

\* The channel is connected while a Receiver exists: in the controller's
\* slot before run, in GuiApp while the window is open.
ReceiverAlive == event_receiver = "Some" \/ gui_pc \in {"idle", "handler"}

\* Mutant of send: a channel of capacity one, try_send failing when it is full.
SendBounded(event, method) ==
    /\ CanCall
    /\ last_call' = method
    /\ IF ReceiverAlive /\ chan = <<>>
       THEN /\ chan' = Append(chan, event)
            /\ sent' = Append(sent, event)
            /\ last_result' = "Ok"
            /\ UNCHANGED errors
       ELSE /\ errors < MaxErrors
            /\ errors' = errors + 1
            /\ last_result' = "sending on a full channel"
            /\ UNCHANGED <<chan, sent>>
    /\ UNCHANGED tVars
    /\ UNCHANGED <<eprinted, window_hints>>
    /\ UNCHANGED <<event_receiver, callback_registry, guiVars, update_batch,
                   gui_pc, batch_pos, reg_lock, gil, prod_pc, prod_arg,
                   applied, invoked>>

\* Sender::send on the unbounded channel: Ok unless every receiver is gone,
\* then Err(SendError), which the emit methods turn into a PyRuntimeError.
Send(event, method) ==
    /\ CanCall
    /\ last_call' = method
    /\ IF ReceiverAlive
       THEN /\ chan' = Append(chan, event)
            /\ sent' = Append(sent, event)
            /\ last_result' = "Ok"
            /\ UNCHANGED errors
       ELSE /\ errors < MaxErrors
            /\ errors' = errors + 1
            /\ last_result' = "sending on a disconnected channel"
            /\ UNCHANGED <<chan, sent>>
    /\ UNCHANGED tVars
    /\ UNCHANGED <<eprinted, window_hints>>
    /\ UNCHANGED <<event_receiver, callback_registry, guiVars, update_batch,
                   gui_pc, batch_pos, reg_lock, gil, prod_pc, prod_arg,
                   applied, invoked>>

update_status(status, color) == Send(UpdateStatus(status, color), "update_status")
update_text(text, decision) == Send(UpdateText(text, decision), "update_text")
set_recording(is_rec) == Send(SetRecording(is_rec), "set_recording")
show_error(error_message) == Send(ShowError(error_message), "show_error")
set_window_properties(transparent, always_on_top) ==
    Send(SetWindowProperties(transparent, always_on_top), "set_window_properties")

\* Mutant of run: the receiver is cloned out of the slot, never taken.
run_clone ==
    /\ CanCall
    /\ gui_pc \in {"none", "closed"}
    /\ gui_pc' = "idle"
    /\ gil' = "gui"
    /\ status_text' = GuiAppNew.status_text
    /\ status_color' = GuiAppNew.status_color
    /\ recognized_text' = GuiAppNew.recognized_text
    /\ text_color' = GuiAppNew.text_color
    /\ is_recording' = GuiAppNew.is_recording
    /\ UNCHANGED tVars
    /\ UNCHANGED <<eprinted, window_hints>>
    /\ UNCHANGED <<ctlVars, update_batch, batch_pos, reg_lock, prod_pc, prod_arg,
                   sent, applied, invoked, last_call, last_result, errors>>

\* run, the receiver still in its slot: take() empties the slot and
\* run_gui_thread blocks in eframe::run_native, the interpreter lock held.
\* native_ok: run_native builds GuiApp and enters the event loop; otherwise it
\* returns Err, unwrap() panics and the receiver is dropped.
run_take ==
    /\ CanCall
    /\ event_receiver = "Some"
    /\ event_receiver' = "None"
    /\ \E native_ok \in BOOLEAN :
        IF native_ok
        THEN /\ gui_pc' = "idle"
             /\ gil' = "gui"
             /\ status_text' = GuiAppNew.status_text
             /\ status_color' = GuiAppNew.status_color
             /\ recognized_text' = GuiAppNew.recognized_text
             /\ text_color' = GuiAppNew.text_color
             /\ is_recording' = GuiAppNew.is_recording
             /\ UNCHANGED <<last_call, last_result>>
        ELSE /\ gui_pc' = "closed"
             /\ last_call' = "run"
             /\ last_result' = "panic"
             /\ UNCHANGED <<gil, guiVars>>
    /\ UNCHANGED tVars
    /\ UNCHANGED <<eprinted, window_hints>>
    /\ UNCHANGED <<chan, callback_registry, update_batch, batch_pos, reg_lock,
                   prod_pc, prod_arg, sent, applied, invoked, errors>>

\* run, the slot already empty: ok_or_else gives the PyRuntimeError.
run_already_running ==
    /\ CanCall
    /\ event_receiver = "None"
    /\ errors < MaxErrors
    /\ errors' = errors + 1
    /\ last_call' = "run"
    /\ last_result' = "GUI already running"
    /\ UNCHANGED tVars
    /\ UNCHANGED <<eprinted, window_hints>>
    /\ UNCHANGED <<ctlVars, guiVars, update_batch, gui_pc, batch_pos, reg_lock,
                   gil, prod_pc, prod_arg, sent, applied, invoked>>

\* The window is closed between two frames: run_native returns, GuiApp and
\* its Receiver are dropped, run returns Ok(()) and gives up the interpreter lock.
close_window ==
    /\ gui_pc = "idle"
    /\ gui_pc' = "closed"
    /\ gil' = "free"
    /\ last_call' = "run"
    /\ last_result' = "Ok"
    /\ UNCHANGED tVars
    /\ UNCHANGED <<eprinted, window_hints>>
    /\ UNCHANGED <<ctlVars, guiVars, update_batch, batch_pos, reg_lock, prod_pc,
                   prod_arg, sent, applied, invoked, errors>>

\* register_callback is entered (interpreter lock held) and goes for the
\* registry mutex.
register_callback_call(name, callback) ==
    /\ CanCall
    /\ prod_pc' = "register"
    /\ prod_arg' = <<name, callback>>
    /\ gil' = "prod"
    /\ UNCHANGED tVars
    /\ UNCHANGED <<eprinted, window_hints>>
    /\ UNCHANGED <<ctlVars, guiVars, update_batch, gui_pc, batch_pos, reg_lock,
                   sent, applied, invoked, last_call, last_result, errors>>

\* Mutant of register_callback: the insert does not take the registry mutex.
register_callback_insert_unlocked ==
    /\ prod_pc = "register"
    /\ callback_registry' =
           [callback_registry EXCEPT ![prod_arg[1]] = prod_arg[2]]
    /\ prod_pc' = "idle"
    /\ prod_arg' = <<>>
    /\ gil' = "free"
    /\ last_call' = "register_callback"
    /\ last_result' = "Ok"
    /\ UNCHANGED tVars
    /\ UNCHANGED <<eprinted, window_hints>>
    /\ UNCHANGED <<chan, event_receiver, guiVars, update_batch, gui_pc,
                   batch_pos, reg_lock, sent, applied, invoked, errors>>

\* lock().unwrap().insert(name, callback); Ok(())
register_callback_insert ==
    /\ prod_pc = "register"
    /\ reg_lock = "free"
    /\ callback_registry' =
           [callback_registry EXCEPT ![prod_arg[1]] = prod_arg[2]]
    /\ prod_pc' = "idle"
    /\ prod_arg' = <<>>
    /\ gil' = "free"
    /\ last_call' = "register_callback"
    /\ last_result' = "Ok"
    /\ UNCHANGED tVars
    /\ UNCHANGED <<eprinted, window_hints>>
    /\ UNCHANGED <<chan, event_receiver, guiVars, update_batch, gui_pc,
                   batch_pos, reg_lock, sent, applied, invoked, errors>>

\* GuiController::new, no call made yet.
InitGui ==
    /\ chan = <<>>
    /\ event_receiver = "Some"
    /\ callback_registry = [n \in CallbackNames |-> NoCallback]
    /\ status_text = GuiAppNew.status_text
    /\ status_color = GuiAppNew.status_color
    /\ recognized_text = GuiAppNew.recognized_text
    /\ text_color = GuiAppNew.text_color
    /\ is_recording = GuiAppNew.is_recording
    /\ update_batch = <<>>
    /\ gui_pc = "none"
    /\ batch_pos = 0
    /\ reg_lock = "free"
    /\ gil = "free"
    /\ prod_pc = "idle"
    /\ prod_arg = <<>>
    /\ sent = <<>>
    /\ applied = <<>>
    /\ invoked = <<>>
    /\ last_call = "new"
    /\ last_result = "Ok"
    /\ errors = 0
    /\ eprinted = 0
    /\ window_hints = <<>>

\* ------------------------------------- main.rs: connect_to_python_backend
\* serde_json::Value, as far as the read loop looks into it.
JStr(x) == [k |-> "str", v |-> x]
JNum(x) == [k |-> "num", v |-> x]
JNull == [k |-> "null"]
JsonKeys == {"type", "text", "mode", "confidence"}
JObject(type, text, mode, confidence) ==
    [obj |-> TRUE,
     f |-> [key \in JsonKeys |->
               CASE key = "type" -> type
                 [] key = "text" -> text
                 [] key = "mode" -> mode
                 [] key = "confidence" -> confidence]]
JArray == [obj |-> FALSE]

\* The text frames the peer sends in the model.
FrameFull ==
    "{\"type\":\"transcription\",\"text\":\"hello\",\"mode\":\"final\",\"confidence\":0.5}"
FrameBare == "{\"type\":\"transcription\"}"
FrameStatus == "{\"type\":\"status\",\"text\":\"hello\"}"
FrameArray == "[\"transcription\"]"
FrameGarbage == "{\"type\":\"transcription\",\"text\":\"hel"
TextFrames == {FrameFull, FrameBare, FrameStatus, FrameArray, FrameGarbage}

\* serde_json::from_str::<Value> on those frames. Numbers are in thousandths.
from_str(text) ==
    CASE text = FrameFull ->
             [ok |-> TRUE,
              value |-> JObject(JStr("transcription"), JStr("hello"),
                                JStr("final"), JNum(500))]
      [] text = FrameBare ->
             [ok |-> TRUE,
              value |-> JObject(JStr("transcription"), JNull, JNull, JNull)]
      [] text = FrameStatus ->
             [ok |-> TRUE,
              value |-> JObject(JStr("status"), JStr("hello"), JNull, JNull)]
      [] text = FrameArray -> [ok |-> TRUE, value |-> JArray]
      [] OTHER -> [ok |-> FALSE]

\* data[key]: Null when data is no object or has no such key.
JIndex(data, key) == IF data.obj THEN data.f[key] ELSE JNull
\* .as_str().unwrap_or(default) and .as_f64().unwrap_or(default)
as_str_or(v, default) == IF v.k = "str" THEN v.v ELSE default
as_f64_or(v, default) == IF v.k = "num" THEN v.v ELSE default

TranscriptionPayload(data) ==
    [text |-> as_str_or(JIndex(data, "text"), ""),
     mode |-> as_str_or(JIndex(data, "mode"), "standard"),
     confidence |-> as_f64_or(JIndex(data, "confidence"), 900)]

\* Mutant of the text arm: every frame that decodes is forwarded, whatever
\* its type.
OnTextAnyType(text) ==
    LET parsed == from_str(text)
    IN  IF parsed.ok THEN <<TranscriptionPayload(parsed.value)>> ELSE <<>>

\* The Ok(Message::Text(text)) arm: the payloads it gives to emit_all.
OnText(text) ==
    LET parsed == from_str(text)
    IN  IF parsed.ok /\ JIndex(parsed.value, "type") = JStr("transcription")
        THEN <<TranscriptionPayload(parsed.value)>>
        ELSE <<>>

\* What ws_receiver.next().await can yield.
Text(text) == [kind |-> "Text", text |-> text]
StreamItems ==
    {Text(t) : t \in TextFrames}
        \cup {[kind |-> k] : k \in {"Binary", "Ping", "Close", "Err", "End"}}

\* Mutant of the read loop: a frame that does not decode ends the session.
KeepsReadingDecoded(item) ==
    /\ item.kind \notin {"Close", "Err", "End"}
    /\ item.kind = "Text" => from_str(item.text).ok

\* Whether the read loop goes on after the item: `break` on Close and Err,
\* the `while let` ends on None.
KeepsReading(item) == item.kind \notin {"Close", "Err", "End"}

\* connect_async(...).await
connect(ok) ==
    /\ t_pc = "connect"
    /\ attempts < MaxAttempts
    /\ attempts' = attempts + 1
    /\ hs_result' = "none"
    /\ t_pc' = IF ok THEN "handshake" ELSE "sleep"
    /\ sessions' = IF ok THEN sessions + 1 ELSE sessions
    /\ live' = IF ok THEN live + 1 ELSE live
    /\ UNCHANGED <<slept, handshakes, received, forwarded>>

\* Mutant of the handshake: the frame is written a second time.
send_handshake_twice(ok) ==
    /\ t_pc = "handshake"
    /\ hs_result' = IF ok THEN "ok" ELSE "err"
    /\ handshakes' = handshakes + 2
    /\ t_pc' = "read"
    /\ UNCHANGED <<attempts, slept, sessions, live, received, forwarded>>

\* `let _ = ws_sender.send(Message::Text(..)).await;` the result is dropped.
send_handshake(ok) ==
    /\ t_pc = "handshake"
    /\ hs_result' = IF ok THEN "ok" ELSE "err"
    /\ handshakes' = handshakes + 1
    /\ t_pc' = "read"
    /\ UNCHANGED <<attempts, slept, sessions, live, received, forwarded>>

\* Mutant of the read loop: a read error reconnects at once, from inside the
\* loop, with the failed stream still in scope.
read_loop_reconnects(item) ==
    /\ t_pc = "read"
    /\ Len(received) < MaxFrames
    /\ received' = Append(received, item)
    /\ forwarded' = IF item.kind = "Text" THEN forwarded \o OnText(item.text)
                    ELSE forwarded
    /\ t_pc' = CASE item.kind = "Err" -> "connect"
                 [] KeepsReading(item) -> "read"
                 [] OTHER -> "sleep"
    /\ live' = IF KeepsReading(item) \/ item.kind = "Err" THEN live ELSE live - 1
    /\ UNCHANGED <<hs_result, attempts, slept, handshakes, sessions>>

\* One turn of `while let Some(msg) = ws_receiver.next().await`. Leaving the
\* loop ends the Ok arm, which drops both halves of the stream.
read_loop(item) ==
    /\ t_pc = "read"
    /\ Len(received) < MaxFrames
    /\ received' = Append(received, item)
    /\ forwarded' = IF item.kind = "Text" THEN forwarded \o OnText(item.text)
                    ELSE forwarded
    /\ t_pc' = IF KeepsReading(item) THEN "read" ELSE "sleep"
    /\ live' = IF KeepsReading(item) THEN live ELSE live - 1
    /\ UNCHANGED <<hs_result, attempts, slept, handshakes, sessions>>

\* Mutant of the backoff: the wait grows with the number of attempts.
backoff_growing ==
    /\ t_pc = "sleep"
    /\ slept' = slept + BackoffSecs * attempts
    /\ t_pc' = "connect"
    /\ UNCHANGED <<hs_result, attempts, handshakes, sessions, live, received,
                   forwarded>>

\* Mutant of the backoff: the task gives up after the second attempt.
backoff_gives_up ==
    /\ t_pc = "sleep"
    /\ slept' = slept + BackoffSecs
    /\ t_pc' = IF attempts >= 2 THEN "done" ELSE "connect"
    /\ UNCHANGED <<hs_result, attempts, handshakes, sessions, live, received,
                   forwarded>>

\* tokio::time::sleep(Duration::from_secs(3)).await, then the loop starts over.
backoff ==
    /\ t_pc = "sleep"
    /\ slept' = slept + BackoffSecs
    /\ t_pc' = "connect"
    /\ UNCHANGED <<hs_result, attempts, handshakes, sessions, live, received,
                   forwarded>>

\* The task as main() spawns it.
InitTransport ==
    /\ t_pc = "connect"
    /\ hs_result = "none"
    /\ attempts = 0
    /\ slept = 0
    /\ handshakes = 0
    /\ sessions = 0
    /\ live = 0
    /\ received = <<>>
    /\ forwarded = <<>>

Init == InitGui /\ InitTransport

guiAll == <<chan, event_receiver, callback_registry, guiVars, update_batch,
            gui_pc, batch_pos, reg_lock, gil, prod_pc, prod_arg, sent, applied,
            invoked, last_call, last_result, errors, eprinted, window_hints>>

\* The producer of Spec stops after MaxSent accepted sends.
MoreToSend == Len(sent) < MaxSent

\* Every pymethod of GuiController on every input value, and the frames of
\* the window.
Next ==
    \/ \E s \in StatusTexts, c \in ColorTags : MoreToSend /\ update_status(s, c)
    \/ \E t \in Texts, d \in Decisions : MoreToSend /\ update_text(t, d)
    \/ \E b \in BOOLEAN : MoreToSend /\ set_recording(b)
    \/ \E m \in ErrorMessages : MoreToSend /\ show_error(m)
    \/ \E t \in BOOLEAN, a \in BOOLEAN : MoreToSend /\ set_window_properties(t, a)
    \/ \E h \in Handlers : register_callback_call("on_done", h)
    \/ register_callback_insert
    \/ run_take
    \/ run_already_running
    \/ process_events
    \/ close_window

Spec == Init /\ [][Next]_vars

\* A producer that queues more than one batch before the window opens.
BurstCap == BatchLimit + MaxExtra

NextBurst ==
    \/ Len(sent) < BurstCap /\ update_text("a", "APPEND_WITH_SPACE")
    \/ Len(sent) < BurstCap /\ set_recording(TRUE)
    \/ run_take
    \/ process_events
    \/ close_window

SpecBurst == Init /\ [][NextBurst]_vars

\* What the drain loop of a tick does to a channel that holds events: it
\* takes the first BatchLimit of them, or all if there are fewer.
TakeBatch ==
    /\ gui_pc = "idle"
    /\ chan # <<>>
    /\ chan' = SubSeq(chan, Min(Len(chan), BatchLimit) + 1, Len(chan))

\* GuiApp::update ends with ctx.request_repaint(): while the window is open
\* the next frame, and with it the next drain, always comes.
FairTicks == WF_chan(TakeBatch)

SpecBurstLive == Init /\ [][NextBurst]_vars /\ FairTicks

\* process_events on every GuiEvent variant. No method of lib.rs sends
\* TriggerCallback, so the channel starts with events of the enum's variants
\* already queued; everything else is as in Spec.
DispatchEvents ==
    {TriggerCallback(n, d) : n \in CallbackNames, d \in Payloads}
        \cup {SetRecording(TRUE), UpdateStatus("Busy", "Red")}

DispatchCap == MaxSent + 1

InitDispatch ==
    /\ InitTransport
    /\ \E q \in UNION {[1..n -> DispatchEvents] : n \in 1..MaxSent} :
           chan = q /\ sent = q
    /\ event_receiver = "Some"
    /\ callback_registry = [n \in CallbackNames |-> NoCallback]
    /\ status_text = GuiAppNew.status_text
    /\ status_color = GuiAppNew.status_color
    /\ recognized_text = GuiAppNew.recognized_text
    /\ text_color = GuiAppNew.text_color
    /\ is_recording = GuiAppNew.is_recording
    /\ update_batch = <<>>
    /\ gui_pc = "none"
    /\ batch_pos = 0
    /\ reg_lock = "free"
    /\ gil = "free"
    /\ prod_pc = "idle"
    /\ prod_arg = <<>>
    /\ applied = <<>>
    /\ invoked = <<>>
    /\ last_call = "new"
    /\ last_result = "Ok"
    /\ errors = 0
    /\ eprinted = 0
    /\ window_hints = <<>>

NextDispatch ==
    \/ Len(sent) < DispatchCap /\ update_text("a", "APPEND_WITH_SPACE")
    \/ Len(sent) < DispatchCap /\ show_error("mic")
    \/ \E n \in CallbackNames, h \in Handlers : register_callback_call(n, h)
    \/ register_callback_insert
    \/ run_take
    \/ run_already_running
    \/ process_events
    \/ handler_returns
    \/ close_window

SpecDispatch == InitDispatch /\ [][NextDispatch]_vars

\* The websocket client alone.
NextTransport ==
    \/ \E ok \in BOOLEAN : connect(ok) /\ UNCHANGED guiAll
    \/ \E ok \in BOOLEAN : send_handshake(ok) /\ UNCHANGED guiAll
    \/ \E item \in StreamItems : read_loop(item) /\ UNCHANGED guiAll
    \/ backoff /\ UNCHANGED guiAll

SpecTransport == Init /\ [][NextTransport]_vars

\* The task on the tokio runtime: the 3 s timer fires and connect_async
\* resolves, one way or the other.
FairTransport ==
    /\ WF_vars(backoff /\ UNCHANGED guiAll)
    /\ WF_vars(\E ok \in BOOLEAN : connect(ok) /\ UNCHANGED guiAll)

SpecTransportLive == Init /\ [][NextTransport]_vars /\ FairTransport

\* ===================================================================
\* Properties
\* ===================================================================

\* Events of the current batch the loop has not reached yet (a handler runs).
Pending ==
    IF batch_pos = 0 THEN <<>>
    ELSE SubSeq(update_batch, batch_pos + 1, Len(update_batch))

\* C1: the render loop applies the events of a producer in exactly the order
\* they were sent, whatever the ticks and batch boundaries in between: what
\* was applied, then what is left of the batch, then what is still queued, is
\* the sequence of accepted sends.
C1_FifoDelivery == applied \o Pending \o chan = sent

\* C1 witness: more than one batch was applied, in two ticks, and the events
\* differ, so an order is observable.
C1_Witness ==
    /\ Len(applied) > BatchLimit
    /\ chan = <<>>
    /\ \E i \in 1..BatchLimit : applied[i] # applied[i + 1]
    /\ applied[BatchLimit] # applied[BatchLimit + 1]

\* C2: one tick takes at most BatchLimit events, from the front of the
\* channel and in order; what is beyond them stays in the channel, unchanged,
\* for the ticks that follow.
C2_BatchLimit ==
    [][Len(chan') < Len(chan) =>
          /\ Len(update_batch') = Min(Len(chan), BatchLimit)
          /\ update_batch' \o chan' = chan]_vars

\* C2 witness: a tick took a full batch and left events queued.
C2_Witness ==
    /\ gui_pc = "idle"
    /\ Len(update_batch) = BatchLimit
    /\ chan # <<>>
    /\ applied = update_batch

\* C3: a GuiApp is built only by the call that takes the receiver out of the
\* full slot, the slot never fills again, and a run call refused with "GUI
\* already running" changes nothing of the controller or of the consumer.
C3_RunOnce ==
    /\ [][(gui_pc' = "idle" /\ gui_pc \in {"none", "closed"}) =>
             (event_receiver = "Some" /\ event_receiver' = "None")]_vars
    /\ [][event_receiver = "None" => event_receiver' = "None"]_vars
    /\ [][(last_call' = "run" /\ errors' # errors) =>
             /\ last_result' = "GUI already running"
             /\ event_receiver = "None"
             /\ UNCHANGED <<ctlVars, guiVars, update_batch, gui_pc, batch_pos,
                            reg_lock, gil, sent, applied, invoked>>]_vars

\* C3 witness: a second run was refused while the first consumer was inside
\* a tick, and the consumer is still there.
C3_Witness ==
    /\ last_call = "run"
    /\ last_result = "GUI already running"
    /\ gui_pc = "handler"
    /\ event_receiver = "None"

EmitMethods ==
    {"update_status", "update_text", "set_recording", "show_error",
     "set_window_properties"}

\* The consumer is gone for good: the window was closed or never came up.
ConsumerDropped == gui_pc = "closed"

\* C4: an emit never waits (whenever the calling thread can run a method at
\* all, the emit goes through) and it fails exactly when the consumer has
\* been dropped; a failed emit changes nothing of the controller, and the
\* producer can go on to emit and to register callbacks.
C4_EmitNonBlocking ==
    /\ [](CanCall /\ errors < MaxErrors =>
             /\ ENABLED (\E b \in BOOLEAN : set_recording(b))
             /\ ENABLED (\E h \in Handlers : register_callback_call("on_done", h)))
    /\ [][(last_call' \in EmitMethods /\ (sent' # sent \/ errors' # errors)) =>
             /\ (last_result' # "Ok") <=> ConsumerDropped
             /\ (last_result' = "Ok") <=> (sent' # sent)
             /\ (last_result' # "Ok") =>
                    UNCHANGED <<ctlVars, guiVars, update_batch, gui_pc, gil,
                                reg_lock, prod_pc, sent, applied>>]_vars

\* C4 witness: an emit failed after the window was closed, and the producer
\* is free to call again.
C4_Witness ==
    /\ last_call \in EmitMethods
    /\ last_result = "sending on a disconnected channel"
    /\ ConsumerDropped
    /\ CanCall
    /\ sent # <<>>

\* The body text the claim describes, over the events applied so far.
RECURSIVE ExpectedText(_)
ExpectedText(events) ==
    IF events = <<>> THEN ""
    ELSE LET before == ExpectedText(SubSeq(events, 1, Len(events) - 1))
             e == events[Len(events)]
         IN  IF e.tag # "UpdateText" THEN before
             ELSE IF e.decision = "APPEND_WITH_SPACE"
                  THEN IF before = "" THEN e.text
                       ELSE before \o " " \o e.text
                  ELSE e.text

\* C5: TextUpdate(new, mode) on body text `existing` gives `new` for
\* APPEND_WITH_SPACE on empty text, existing + " " + new for
\* APPEND_WITH_SPACE on non-empty text, and `new` for REPLACE and for every
\* other mode string.
C5_TextMerge == recognized_text = ExpectedText(applied)

\* C5 witness: an unrecognized mode replaced, then an append added a space.
C5_Witness ==
    /\ applied = <<UpdateText("a", "MERGE"), UpdateText("b", "APPEND_WITH_SPACE")>>
    /\ recognized_text = "a b"

StatusEvents == {"UpdateStatus", "SetRecording", "ShowError"}

\* The last event of a batch that writes the status line, <<>> if none does.
RECURSIVE LastStatusEvent(_)
LastStatusEvent(batch) ==
    IF batch = <<>> THEN <<>>
    ELSE IF batch[Len(batch)].tag \in StatusEvents THEN <<batch[Len(batch)]>>
    ELSE LastStatusEvent(SubSeq(batch, 1, Len(batch) - 1))

\* C6: when the last status-affecting event of a drain is SetRecording(b),
\* the drain ends with the recording flag b and the status text
\* "Recording..." (b true) or "Ready" (b false), whatever UpdateStatus or
\* ShowError came before it in the batch.
C6_RecordingStatus ==
    LET l == LastStatusEvent(update_batch)
    IN  (gui_pc \in {"idle", "closed"} /\ l # <<>> /\ l[1].tag = "SetRecording") =>
            /\ is_recording = l[1].recording
            /\ status_text = IF l[1].recording THEN "Recording..." ELSE "Ready"

\* C6 witness: a status update and then a recording change in one drain.
C6_Witness ==
    /\ gui_pc = "idle"
    /\ update_batch = <<UpdateStatus("Busy", "Red"), SetRecording(FALSE)>>
    /\ status_text = "Ready"

\* The GuiApp fields after the events `new`, callback requests skipped.
RECURSIVE SkipCallbacks(_, _)
SkipCallbacks(ui, new) ==
    IF new = <<>> THEN ui
    ELSE SkipCallbacks(IF Head(new).tag = "TriggerCallback" THEN ui
                       ELSE ApplyEvent(ui, Head(new)),
                       Tail(new))

Unregistered(e) ==
    e.tag = "TriggerCallback" /\ callback_registry[e.callback_name] = NoCallback
HasEntry(e) ==
    e.tag = "TriggerCallback" /\ callback_registry[e.callback_name] # NoCallback

\* C7: when the loop comes to a TriggerCallback whose name has no entry in
\* the registry, it calls no handler, changes neither the UI state nor the
\* registry, and goes on with the rest of the batch.
C7_UnregisteredCallbackNoOp ==
    [][applied' # applied =>
          LET new == SubSeq(applied', Len(applied) + 1, Len(applied'))
              last == new[Len(new)]
          IN  /\ callback_registry' = callback_registry
              /\ GuiAppNow' = SkipCallbacks(GuiAppNow, new)
              /\ \A i \in 1..(Len(new) - 1) : ~HasEntry(new[i])
              /\ IF Unregistered(last) \/ last.tag # "TriggerCallback"
                 THEN /\ invoked' = invoked
                      /\ gui_pc' = "idle"
                      /\ applied' \o chan' = sent'
                 ELSE /\ Len(invoked') = Len(invoked) + 1
                      /\ invoked'[Len(invoked')][2] # NoCallback]_vars

\* C7 witness: an unregistered callback request was applied, no handler ran,
\* and the event behind it in the batch took effect.
C7_Witness ==
    /\ Len(applied) = 2
    /\ applied[1].tag = "TriggerCallback"
    /\ applied[2] = SetRecording(TRUE)
    /\ invoked = <<>>
    /\ is_recording
    /\ status_text = "Recording..."

\* C8: for every GuiEvent variant the controller has an operation that
\* enqueues an event of that variant: whenever a caller can run a method and
\* the consumer exists, a step that puts an event of the variant at the end
\* of the channel is possible.
C8_EveryVariantEmitted ==
    (CanCall /\ ReceiverAlive /\ Len(sent) < MaxSent) =>
        \A v \in GuiEventVariants :
            ENABLED (Next /\ Len(chan') = Len(chan) + 1
                          /\ chan'[Len(chan')].tag = v)

\* What the code does instead: no TriggerCallback is ever sent.
C8_NoTriggerCallbackSent ==
    \A i \in 1..Len(sent) : sent[i].tag # "TriggerCallback"

\* The inbound frames of the wire protocol that carry a transcription, and
\* the frames that are no JSON.
IsTranscription(item) ==
    item.kind = "Text" /\ item.text \in {FrameFull, FrameBare}
Undecodable(item) == item.kind = "Text" /\ item.text = FrameGarbage
NumTranscriptions(items) ==
    Cardinality({i \in 1..Len(items) : IsTranscription(items[i])})

\* C9: a text frame that does not decode as JSON forwards nothing and leaves
\* the session reading; the valid transcription frames around it are all
\* forwarded.
C9_DecodeFailureKeepsSession ==
    /\ (received # <<>> /\ Undecodable(received[Len(received)])) => t_pc = "read"
    /\ Len(forwarded) = NumTranscriptions(received)

\* C9 witness: an undecodable frame, then a transcription frame on the same
\* connection, which was forwarded.
C9_Witness ==
    /\ attempts = 1
    /\ received = <<Text(FrameGarbage), Text(FrameFull)>>
    /\ Len(forwarded) = 1
    /\ t_pc = "read"

\* The payload the wire protocol gives for a transcription frame.
ExpectedPayload(item) ==
    IF item.text = FrameFull
    THEN [text |-> "hello", mode |-> "final", confidence |-> 500]
    ELSE [text |-> "", mode |-> "standard", confidence |-> 900]

Drops(items) == {i \in 1..Len(items) : items[i].kind \in {"Close", "Err", "End"}}

\* C10: every connection attempt but the first comes after exactly one
\* backoff of BackoffSecs for the attempt or session before it (one wait and
\* one attempt per drop), and a session opened after a drop forwards the
\* transcription frames it reads.
C10_OneBackoffOneAttempt ==
    /\ slept = BackoffSecs * (IF t_pc = "connect" THEN attempts ELSE attempts - 1)
    /\ Cardinality(Drops(received)) <= attempts
    /\ (t_pc = "read" /\ received # <<>> /\ IsTranscription(received[Len(received)])) =>
           /\ forwarded # <<>>
           /\ forwarded[Len(forwarded)] = ExpectedPayload(received[Len(received)])

\* C10 witness: a session dropped, the client slept once, connected again at
\* the second attempt and forwarded a frame of the new session.
C10_Witness ==
    /\ attempts = 2
    /\ slept = BackoffSecs
    /\ t_pc = "read"
    /\ Len(received) = 2
    /\ received[1].kind = "Err"
    /\ received[2] = Text(FrameBare)
    /\ forwarded = <<[text |-> "", mode |-> "standard", confidence |-> 900]>>

\* ------------------------------------------------------------------ C11
\* The order in which the client task moves through its positions: an
\* attempt either establishes a session or fails, an established session
\* writes its handshake and reads, and both a failed attempt and an ended
\* session pass through the backoff wait before the next attempt.
SessionOrder ==
    {<<"connect", "handshake">>, <<"connect", "sleep">>,
     <<"handshake", "read">>, <<"read", "sleep">>, <<"sleep", "connect">>}

\* C11: at most one session is alive at any time, a connection attempt is
\* only made while no stream of an earlier session is in scope, and the task
\* only moves disconnected -> connected -> ended or failed -> backoff ->
\* disconnected.
C11_OneSessionInOrder ==
    [][/\ live' \in {0, 1}
       /\ live' = 1 <=> t_pc' \in {"handshake", "read"}
       /\ t_pc' # t_pc => <<t_pc, t_pc'>> \in SessionOrder
       /\ attempts' > attempts => live = 0 /\ t_pc = "connect"]_vars

\* A second session is being read after the first one ended.
C11_Witness ==
    /\ sessions = 2
    /\ live = 1
    /\ t_pc = "read"
    /\ received # <<>>

\* ------------------------------------------------------------------ C12
\* C12: the client has no terminal state: whatever ended the previous
\* attempt or session (refused connection, read error, close frame, end of
\* stream), the task in its backoff wait goes on to one more connection
\* attempt, however many attempts were made before.
C12_AlwaysRetries ==
    \A n \in 1..(MaxAttempts - 1) :
        (t_pc = "sleep" /\ attempts = n) ~> (attempts = n + 1)

\* The last attempt the bound allows was made, after a failed one.
C12_Witness ==
    /\ attempts = MaxAttempts
    /\ sessions < attempts
    /\ slept = BackoffSecs * (MaxAttempts - 1)

\* ------------------------------------------------------------------ C13
Last(seq) == seq[Len(seq)]

\* C13: a close frame, a read error and a write error (the handshake write
\* included) each end the session and take the task to the backoff wait, and
\* a session whose handshake write failed reads no frame.
C13_ErrorsEndSession ==
    [][/\ (received' # received /\ Last(received').kind \in {"Close", "Err"})
            => t_pc' = "sleep"
       /\ (hs_result # "err" /\ hs_result' = "err") => t_pc' = "sleep"
       /\ received' # received => hs_result = "ok"]_vars

\* ------------------------------------------------------------------ C14
\* One payload for each transcription frame of `items`, in their order.
RECURSIVE ExpectedForwarded(_)
ExpectedForwarded(items) ==
    IF items = <<>> THEN <<>>
    ELSE (IF IsTranscription(Head(items)) THEN <<ExpectedPayload(Head(items))>>
          ELSE <<>>) \o ExpectedForwarded(Tail(items))

\* C14: the events forwarded to the front end are exactly the payloads of
\* the decoded text frames of type "transcription", one for each and in
\* arrival order; a text frame of another type and a frame that is no text
\* forward nothing and leave the session reading.
C14_ForwardsTranscriptionsOnly ==
    /\ forwarded = ExpectedForwarded(received)
    /\ (received # <<>> /\ Last(received).kind \in {"Text", "Binary", "Ping"})
           => t_pc = "read"

\* Two transcription frames with a status frame between them, forwarded as
\* two events in the order of arrival.
C14_Witness ==
    /\ received = <<Text(FrameBare), Text(FrameStatus), Text(FrameFull)>>
    /\ forwarded = <<ExpectedPayload(Text(FrameBare)),
                     ExpectedPayload(Text(FrameFull))>>
    /\ t_pc = "read"

\* ------------------------------------------------------------------ C18
\* C18: every established connection gets one client_connected handshake
\* send, made before any frame of that session is read or forwarded, and a
\* failed attempt sends none.
C18_HandshakeOncePerSession ==
    /\ [](handshakes = IF t_pc = "handshake" THEN sessions - 1 ELSE sessions)
    /\ [][(received' # received \/ forwarded' # forwarded) =>
             /\ hs_result # "none"
             /\ handshakes = sessions
             /\ handshakes' = handshakes]_vars
    /\ [][(attempts' > attempts /\ sessions' = sessions) =>
             /\ handshakes' = handshakes
             /\ t_pc' = "sleep"]_vars

\* The first attempt failed and sent nothing; the second one connected, sent
\* its handshake and then read a frame.
C18_Witness ==
    /\ attempts = 2
    /\ sessions = 1
    /\ handshakes = 1
    /\ slept = BackoffSecs
    /\ Len(received) = 1
    /\ forwarded # <<>>

\* ------------------------------------------------------------------ C15
\* C15: when a handler called for a TriggerCallback fails, the failure stays
\* inside the dispatch: the render loop is not stopped, the registry lock is
\* given up (and only taken again for the next dispatch), and the events
\* behind the request are applied as after a handler that succeeded: the
\* rest of the batch up to the next handler call at once, in order, and
\* nothing of the channel is lost for the ticks that follow.
C15_HandlerFailureContained ==
    [][eprinted' > eprinted =>
          LET upto == IF batch_pos' = 0 THEN Len(update_batch) ELSE batch_pos'
              new == SubSeq(update_batch, batch_pos + 1, upto)
          IN  /\ gui_pc' \in {"idle", "handler"}
              /\ reg_lock' = IF gui_pc' = "handler" THEN "gui" ELSE "free"
              /\ applied' = applied \o new
              /\ GuiAppNow' = SkipCallbacks(GuiAppNow, new)
              /\ applied' \o Pending' \o chan' = sent'
              /\ UNCHANGED <<chan, sent, callback_registry, update_batch,
                             event_receiver, errors, last_result>>]_vars

\* A handler failed; the event behind its request in the batch and an event
\* sent while it ran, drained by a later tick, both took effect.
C15_Witness ==
    /\ eprinted = 1
    /\ Len(invoked) = 1
    /\ Len(applied) = 3
    /\ applied[1].tag = "TriggerCallback"
    /\ applied[2] = SetRecording(TRUE)
    /\ applied[3] = UpdateText("a", "APPEND_WITH_SPACE")
    /\ is_recording
    /\ recognized_text = "a"
    /\ reg_lock = "free"
    /\ gui_pc = "idle"

C17_RegistryExclusive ==
    /\ [](reg_lock = "gui" <=> gui_pc = "handler")
    /\ [](gui_pc = "handler" =>
             LET e == update_batch[batch_pos]
             IN  /\ callback_registry[e.callback_name] \in Handlers
                 /\ Last(invoked) =
                        <<e.callback_name, callback_registry[e.callback_name],
                          e.data>>)
    /\ [][callback_registry' # callback_registry =>
             /\ reg_lock = "free" /\ reg_lock' = "free"
             /\ gui_pc # "handler"
             /\ prod_arg[2] \in Handlers
             /\ callback_registry' =
                    [callback_registry EXCEPT ![prod_arg[1]] = prod_arg[2]]]_vars

\* A handler runs under the registry lock while a producer is inside
\* register_callback with another handler for the same name: the insert has
\* not happened.
C17_Witness ==
    /\ gui_pc = "handler"
    /\ reg_lock = "gui"
    /\ prod_pc = "register"
    /\ prod_arg[1] = Last(invoked)[1]
    /\ prod_arg[2] # Last(invoked)[2]
    /\ callback_registry[prod_arg[1]] = Last(invoked)[2]

\* ------------------------------------------------------------------ C19
\* The window properties of the SetWindowProperties events in `events`, in
\* order.
RECURSIVE HintsOf(_)
HintsOf(events) ==
    IF events = <<>> THEN <<>>
    ELSE (IF Head(events).tag = "SetWindowProperties"
          THEN <<[transparent |-> Head(events).transparent,
                  always_on_top |-> Head(events).always_on_top]>>
          ELSE <<>>) \o HintsOf(Tail(events))

\* C19: every SetWindowProperties event the render loop takes from a batch
\* is passed on to the windowing layer, which so receives the transparent
\* and always_on_top values of each of them, in order.
C19_WindowHintsForwarded == window_hints = HintsOf(applied)

\* What the code does instead: the windowing layer is handed nothing.
C19_NothingForwarded == window_hints = <<>>

\* ------------------------------------------------------------------ C20
\* C20: every event a send accepted is applied exactly once. A tick applies
\* the events it drained in that tick and nothing else (the batch of the
\* tick before is gone), what was applied and what is still queued is what
\* was sent, and as long as the window stays open and ticks keep coming
\* every event sent is eventually applied, also when more than BatchLimit
\* events were queued ahead of a tick.
C20_AppliedExactlyOnce ==
    /\ [][applied' # applied =>
             /\ applied' = applied \o update_batch'
             /\ update_batch' \o chan' = chan]_vars
    /\ [](gui_pc # "handler" => applied \o chan = sent)
    /\ [][<<process_events>>_chan <=> <<TakeBatch>>_chan]_vars
    /\ gui_pc = "idle" ~> (applied = sent \/ gui_pc = "closed")

\* More than one batch was queued before the first tick, and every event
\* of it has been applied, once.
C20_Witness ==
    /\ Len(sent) = BurstCap
    /\ applied = sent
    /\ chan = <<>>
    /\ gui_pc = "idle"
    /\ Len(update_batch) = BurstCap - BatchLimit

====
